---- MODULE Spec2Model ----
\* Model of src/dynamic_blocks.py: the registry persisted in the document's
\* string table, the block-definition cache, the delete-and-recreate
\* replacement of a placed instance, and the four commands.
EXTENDS Integers, Sequences, FiniteSets, TLC

-----------------------------------------------------------------------------
\* Bounds of the model.

\* Number of Guids the host document issues for placed objects.
MaxGuids == 2
\* Number of host operations (Delete, AddInstanceObject) that fail.
MaxFailures == 1

-----------------------------------------------------------------------------
\* Values the prompts can return.

\* Attributes of a newly placed object (AddInstanceObject without attributes
\* takes the document's current default attributes).
DefaultAttr == "default"

\* What doc.Strings.GetValue(STORE_SECTION, STORE_KEY) can return when a
\* document is opened: nothing, the empty string, text that is no JSON, JSON
\* text whose top level is no object, and a JSON object with neither key.
\* keys is the set of top-level keys of a JSON object.
NoValue == [kind |-> "none", keys |-> {}, families |-> {}, instances |-> {}]
EmptyString == [kind |-> "empty", keys |-> {}, families |-> {}, instances |-> {}]
NotJson == [kind |-> "text", keys |-> {}, families |-> {}, instances |-> {}]
JsonArray == [kind |-> "array", keys |-> {}, families |-> {}, instances |-> {}]
JsonEmptyObject == [kind |-> "json", keys |-> {}, families |-> {}, instances |-> {}]

\* The document of one session and the answers the user gives in it:
\*   names  - rs.GetString / rs.ListBox answers, as character sequences;
\*   widths - rs.GetReal answers for "Width", in units of 1e-7;
\*   points - rs.GetPoint answers (insertion points);
\*   attrs  - the document's default attributes at the time of an insert;
\*   slot   - the content of the string-table slot when the document is opened.
\* One session works on a single family name in two spellings, with two
\* widths and two insertion points; one works on two families; the others
\* work on one family in a document whose slot holds no registry text.
Sessions ==
    { [ names |-> { <<"P", "a">>, <<"p", "A">> }, widths |-> {14, 20}, points |-> {0, 1},
        attrs |-> {DefaultAttr}, slot |-> NoValue ],
      [ names |-> { <<"P", "a">>, <<"D">> }, widths |-> {14}, points |-> {0},
        attrs |-> {DefaultAttr}, slot |-> NoValue ],
      [ names |-> { <<"D">> }, widths |-> {14}, points |-> {0},
        attrs |-> {DefaultAttr, "layer1"}, slot |-> EmptyString ],
      [ names |-> { <<"D">> }, widths |-> {14}, points |-> {0},
        attrs |-> {DefaultAttr}, slot |-> NotJson ],
      [ names |-> { <<"D">> }, widths |-> {14}, points |-> {0},
        attrs |-> {DefaultAttr}, slot |-> JsonArray ],
      [ names |-> { <<"D">> }, widths |-> {14}, points |-> {0},
        attrs |-> {DefaultAttr}, slot |-> JsonEmptyObject ] }

\* rs.GetReal answers for "Height" and for the family defaults (1.4e-6).
HeightReals == {14}
DefaultReals == {14}

\* Rhino.Guid.Empty, returned by AddInstanceObject when it fails.
GuidEmpty == 0


-----------------------------------------------------------------------------
\* Conversions.

\* round(x, 6) on a value in units of 1e-7: the nearest multiple of 1e-6.
round6(x) == ((x + 5) \div 10) * 10

\* str.lower() on a name, character by character.
LowerChar(c) ==
    CASE c = "P" -> "p"
      [] c = "A" -> "a"
      [] c = "D" -> "d"
      [] OTHER -> c

lower(s) == [i \in DOMAIN s |-> LowerChar(s[i])]

\* str(guid): the registry keys instances by the text of the Guid.
str(g) == <<"guid", g>>

\* Rhino.Guid(text): back from the text to the Guid.
Guid(s) == s[2]

\* The place of a parameter name in the lexicographic order of str.
KeyRank(k) ==
    CASE k = "Depth" -> 1
      [] k = "Height" -> 2
      [] k = "Width" -> 3

\* k1 <= k2 on parameter names.
KeyLeq(k1, k2) == KeyRank(k1) <= KeyRank(k2)

\* The orders in which iterating over the set S can yield its elements
\* (dict iteration order).
Orderings(S) ==
    { q \in [1..Cardinality(S) -> S] : \A i, j \in DOMAIN q : i # j => q[i] # q[j] }

\* The order in which a dict iterates over parameter names (hash order).
HashOrder == <<"Width", "Depth", "Height">>

\* values.keys(): the keys in the order the dict iterates in.
keys(values) == SelectSeq(HashOrder, LAMBDA k : k \in DOMAIN values)

\* sorted that hands the sequence back as it came.
sorted_as_is(seq) == seq

\* Two adjacent names put in order.
Ordered(a, b) == IF KeyLeq(a, b) THEN <<a, b>> ELSE <<b, a>>

\* sorted(seq) on a sequence of at most three parameter names, by comparing
\* and exchanging neighbours.
sorted(seq) ==
    IF Len(seq) <= 1 THEN seq
    ELSE IF Len(seq) = 2 THEN Ordered(seq[1], seq[2])
    ELSE LET p == Ordered(seq[1], seq[2])
             q == Ordered(p[2], seq[3])
             r == Ordered(p[1], q[1])
         IN <<r[1], r[2], q[2]>>

-----------------------------------------------------------------------------
\* Registry data and its encoding in the document string table.

EmptyData == [families |-> << >>, instances |-> << >>]

\* A mapping as the set of its key/value pairs, and back.
Pairs(f) == { <<k, f[k]>> : k \in DOMAIN f }

FromPairs(ps) ==
    [k \in { p[1] : p \in ps } |-> (CHOOSE p \in ps : p[1] = k)[2]]

\* json.dumps that leaves the instances out of the text.
json_dumps_no_instances(data) ==
    [ kind |-> "json",
      keys |-> {"families", "instances"},
      families |-> Pairs(data.families),
      instances |-> {} ]

\* json.dumps(self.data): the text written to the slot.
json_dumps(data) ==
    [ kind |-> "json",
      keys |-> {"families", "instances"},
      families |-> Pairs(data.families),
      instances |-> Pairs(data.instances) ]

\* json.loads(raw) on the text of a JSON object, followed by the two
\* setdefault calls: a key the object lacks is bound to the empty mapping.
json_loads(raw) ==
    [ families |-> IF "families" \in raw.keys THEN FromPairs(raw.families) ELSE << >>,
      instances |-> IF "instances" \in raw.keys THEN FromPairs(raw.instances) ELSE << >> ]

\* What _load hands out if the exception of json.loads or setdefault escapes.
Raised == [families |-> <<"Exception">>, instances |-> << >>]

\* _load without the try/except of lines 41-47.
load_no_except(raw) ==
    IF raw.kind \in {"none", "empty"} THEN EmptyData
    ELSE IF raw.kind = "json" THEN json_loads(raw)
    ELSE Raised

\* DynamicBlockRegistry._load: nothing or "" is falsy (line 39); text that
\* json.loads rejects, or whose top level has no setdefault, is caught (line 46).
load(raw) ==
    IF raw.kind \in {"none", "empty"} THEN EmptyData
    ELSE IF raw.kind = "json" THEN json_loads(raw)
    ELSE EmptyData

\* Remove key k from a mapping (dict.pop(k, None)).
Without(f, k) == [x \in DOMAIN f \ {k} |-> f[x]]

\* Bind key k to v in a mapping (d[k] = v).
With(f, k, v) == [x \in DOMAIN f \cup {k} |-> IF x = k THEN v ELSE f[x]]

\* DynamicBlockRegistry.add_family, without its save.
add_family(data, family_id, name, family_type, parameters) ==
    [data EXCEPT !.families =
        With(@, family_id,
             [name |-> name, family_type |-> family_type, parameters |-> parameters])]

\* DynamicBlockRegistry.find_family_by_name: a case-sensitive comparison.
find_family_by_name_cs(data, name) ==
    { fid \in DOMAIN data.families : data.families[fid].name = name }

\* DynamicBlockRegistry.find_family_by_name: the ids whose name matches
\* case-insensitively (the code returns the first one it iterates over).
find_family_by_name(data, name) ==
    { fid \in DOMAIN data.families : lower(data.families[fid].name) = lower(name) }

\* add_instance that binds the entry to no family.
add_instance_orphan(data, obj_id, family_id, values) ==
    [data EXCEPT !.instances =
        With(@, obj_id, [family_id |-> 0, values |-> values])]

\* add_instance that records nothing.
add_instance_none(data, obj_id, family_id, values) == data

\* DynamicBlockRegistry.add_instance, without its save.
add_instance(data, obj_id, family_id, values) ==
    [data EXCEPT !.instances =
        With(@, obj_id, [family_id |-> family_id, values |-> values])]

\* remove_instance that leaves the entry in place.
remove_instance_keep(data, obj_id) == data

\* DynamicBlockRegistry.remove_instance, without its save.
remove_instance(data, obj_id) ==
    [data EXCEPT !.instances = Without(@, obj_id)]

\* DynamicBlockRegistry.iter_instances_for_family: the ids bound to family_id.
iter_instances_for_family(data, family_id) ==
    { oid \in DOMAIN data.instances : data.instances[oid].family_id = family_id }

-----------------------------------------------------------------------------
\* Host document: placed objects by Guid, block definitions by index, and the
\* next Guid the host issues.

EmptyDoc == [objects |-> << >>, defs |-> << >>, next |-> 1]

\* Rhino.Geometry.Transform.Translation(pt.X, pt.Y, pt.Z)
Translation(pt) == <<"T", pt>>

\* make_rectangle_geometry / build_geometry: the rectangle's corner extents.
build_geometry(family_type, values) ==
    IF family_type = "rectangle"
    THEN <<values["Width"], values["Height"]>>
    ELSE <<"ValueError">>

\* "_".join(parts): the parts with "_" between them.
RECURSIVE join(_)
join(parts) ==
    IF parts = << >> THEN << >>
    ELSE IF Len(parts) = 1 THEN Head(parts)
    ELSE Head(parts) \o <<"_">> \o join(Tail(parts))

\* "{}={}".format(k, v)
format_pair(k, v) == <<k, "=", v>>

\* definition_name that leaves the values out of the name.
definition_name_no_values(family_name, values) ==
    <<"DB", "_">> \o family_name

\* Lines 106-107 when values.keys() yields the keys in the given order:
\* "DB_<family>_<k>=<v>_<k>=<v>" over the sorted keys, as the sequence of its
\* pieces (the characters of the family name among them).
definition_name_iter(family_name, values, order) ==
    LET ks == sorted(order)
        payload == join([i \in 1..Len(ks) |-> format_pair(ks[i], values[ks[i]])])
    IN <<"DB", "_">> \o family_name \o <<"_">> \o payload

\* definition_name
definition_name(family_name, values) ==
    definition_name_iter(family_name, values, keys(values))

\* doc.InstanceDefinitions.Find(name, True): the indexes holding that name.
FindDefinition(d, name) == { i \in DOMAIN d.defs : d.defs[i].name = name }

\* ensure_definition that never looks the name up and always adds.
ensure_definition_always_add(d, family, values) ==
    LET name == definition_name(family.name, values)
    IN [ doc |-> [d EXCEPT !.defs =
                    Append(@, [name |-> name,
                               geometry |-> build_geometry(family.family_type, values)])],
         idx |-> Len(d.defs) + 1 ]

\* ensure_definition: the index found, or the index of the definition added.
ensure_definition(d, family, values) ==
    LET name == definition_name(family.name, values)
        idef == FindDefinition(d, name)
    IN IF idef # {}
       THEN [doc |-> d, idx |-> CHOOSE i \in idef : TRUE]
       ELSE [ doc |-> [d EXCEPT !.defs =
                         Append(@, [name |-> name,
                                    geometry |-> build_geometry(family.family_type, values)])],
              idx |-> Len(d.defs) + 1 ]

\* doc.Objects.AddInstanceObject(idef_index, xform, attr): ok is the host's
\* outcome; on failure nothing is added and Guid.Empty is returned.
AddInstanceObject(d, idef_index, xform, attr, ok) ==
    IF ok
    THEN [ doc |-> [d EXCEPT !.objects =
                      With(@, d.next, [kind |-> "InstanceObject", idef |-> idef_index,
                                       xform |-> xform, attr |-> attr]),
                    !.next = @ + 1],
           id |-> d.next ]
    ELSE [doc |-> d, id |-> GuidEmpty]

\* doc.Objects.Delete(obj, False): ok is the host's outcome.
DeleteObject(d, g, ok) ==
    IF ok THEN [d EXCEPT !.objects = Without(@, g)] ELSE d

\* Return values of replace_instance_geometry: False, or the text of the new Guid.
RetFalse == [truthy |-> FALSE, text |-> << >>]
RetStr(g) == [truthy |-> TRUE, text |-> str(g)]

\* replace_instance_geometry that resolves the definition before deleting.
replace_instance_geometry_eager(d, instance_id, family, values, delOk, addOk) ==
    LET g == Guid(instance_id)
    IN IF g \notin DOMAIN d.objects
       THEN [doc |-> d, ret |-> RetFalse, branch |-> "InstanceNotFound"]
       ELSE IF d.objects[g].kind # "InstanceObject"
       THEN [doc |-> d, ret |-> RetFalse, branch |-> "NotAnInstance"]
       ELSE
         LET xform == d.objects[g].xform
             attr  == d.objects[g].attr
             e     == ensure_definition(d, family, values)
         IN IF ~delOk
            THEN [doc |-> e.doc, ret |-> RetFalse, branch |-> "DeleteFailed"]
            ELSE
              LET d1 == DeleteObject(e.doc, g, TRUE)
                  a  == AddInstanceObject(d1, e.idx, xform, attr, addOk)
              IN IF a.id = GuidEmpty
                 THEN [doc |-> a.doc, ret |-> RetFalse, branch |-> "ReplacementLost"]
                 ELSE [doc |-> a.doc, ret |-> RetStr(a.id), branch |-> "Replaced"]

\* replace_instance_geometry that places the new object at the origin with
\* the document's default attributes instead of the captured ones.
replace_instance_geometry_reset(d, instance_id, family, values, delOk, addOk) ==
    LET g == Guid(instance_id)
    IN IF g \notin DOMAIN d.objects
       THEN [doc |-> d, ret |-> RetFalse, branch |-> "InstanceNotFound"]
       ELSE IF d.objects[g].kind # "InstanceObject"
       THEN [doc |-> d, ret |-> RetFalse, branch |-> "NotAnInstance"]
       ELSE IF ~delOk
       THEN [doc |-> d, ret |-> RetFalse, branch |-> "DeleteFailed"]
       ELSE
         LET d1 == DeleteObject(d, g, TRUE)
             e  == ensure_definition(d1, family, values)
             a  == AddInstanceObject(e.doc, e.idx, Translation(0), DefaultAttr, addOk)
         IN IF a.id = GuidEmpty
            THEN [doc |-> a.doc, ret |-> RetFalse, branch |-> "ReplacementLost"]
            ELSE [doc |-> a.doc, ret |-> RetStr(a.id), branch |-> "Replaced"]

\* replace_instance_geometry without the Guid.Empty test of lines 140-141:
\* the text of whatever AddInstanceObject returned is handed to the caller.
replace_instance_geometry_phantom(d, instance_id, family, values, delOk, addOk) ==
    LET g == Guid(instance_id)
    IN IF g \notin DOMAIN d.objects
       THEN [doc |-> d, ret |-> RetFalse, branch |-> "InstanceNotFound"]
       ELSE IF d.objects[g].kind # "InstanceObject"
       THEN [doc |-> d, ret |-> RetFalse, branch |-> "NotAnInstance"]
       ELSE IF ~delOk
       THEN [doc |-> d, ret |-> RetFalse, branch |-> "DeleteFailed"]
       ELSE
         LET xform == d.objects[g].xform
             attr  == d.objects[g].attr
             d1 == DeleteObject(d, g, TRUE)
             e  == ensure_definition(d1, family, values)
             a  == AddInstanceObject(e.doc, e.idx, xform, attr, addOk)
         IN [ doc |-> a.doc, ret |-> RetStr(a.id),
              branch |-> IF a.id = GuidEmpty THEN "ReplacementLost" ELSE "Replaced" ]

\* replace_instance_geometry: delOk and addOk are the host's outcomes of
\* Delete and AddInstanceObject; branch names the return statement taken.
replace_instance_geometry(d, instance_id, family, values, delOk, addOk) ==
    LET g == Guid(instance_id)
    IN IF g \notin DOMAIN d.objects
       THEN [doc |-> d, ret |-> RetFalse, branch |-> "InstanceNotFound"]
       ELSE IF d.objects[g].kind # "InstanceObject"
       THEN [doc |-> d, ret |-> RetFalse, branch |-> "NotAnInstance"]
       ELSE
         LET xform == d.objects[g].xform
             attr  == d.objects[g].attr
         IN IF ~delOk
            THEN [doc |-> DeleteObject(d, g, FALSE), ret |-> RetFalse,
                  branch |-> "DeleteFailed"]
            ELSE
              LET d1 == DeleteObject(d, g, TRUE)
                  e  == ensure_definition(d1, family, values)
                  a  == AddInstanceObject(e.doc, e.idx, xform, attr, addOk)
              IN IF a.id = GuidEmpty
                 THEN [doc |-> a.doc, ret |-> RetFalse, branch |-> "ReplacementLost"]
                 ELSE [doc |-> a.doc, ret |-> RetStr(a.id), branch |-> "Replaced"]

-----------------------------------------------------------------------------
\* State.

VARIABLES
    doc,        \* the host document (sc.doc): objects, definitions, next Guid
    store,      \* the string-table slot (STORE_SECTION, STORE_KEY)
    pc,         \* "idle", or "sync" while cmd_sync_family_instances loops
    reg,        \* reg.data of the running sync command
    updates,    \* the part of the materialized list the sync loop has not processed
    sync_fid,   \* family_id of the running sync command
    uuids,      \* number of uuid4 values drawn
    failures,   \* number of host operations that failed
    session,    \* the answers the user gives in this session
    used,       \* the (family name, values) pairs insert, edit and sync have used (history)
    last,       \* how the last step ended (history)
    written     \* the values the last step wrote to the slot, in order (history)

vars ==
    <<doc, store, pc, reg, updates, sync_fid, uuids, failures, session, used, last, written>>

InitIn(sessions) ==
    /\ session \in sessions
    /\ doc = EmptyDoc
    /\ store = session.slot
    /\ pc = "idle"
    /\ reg = EmptyData
    /\ updates = << >>
    /\ sync_fid = 0
    /\ uuids = 0
    /\ failures = 0
    /\ used = {}
    /\ last = "init"
    /\ written = << >>

Init == InitIn(Sessions)

Names == session.names
WidthReals == session.widths
Points == session.points
Attrs == session.attrs

\* The host issues at most MaxGuids Guids and fails at most MaxFailures times.
HostBudget(ok) ==
    IF ok THEN doc.next <= MaxGuids ELSE failures < MaxFailures

Idle == pc = "idle"

NoSync == UNCHANGED <<pc, reg, updates, sync_fid, session>>

\* A command that returns before touching the document or the slot.
Return(how) ==
    /\ last' = how
    /\ written' = << >>
    /\ UNCHANGED <<doc, store, pc, reg, updates, sync_fid, uuids, failures, session, used>>

\* sorted([f["name"] for f in families.values()]) as the set the list box offers.
FamilyNames(data) == { data.families[fid].name : fid \in DOMAIN data.families }

\* rs.GetObject(..., rs.filter.instance): the live block instances one can pick.
Pickable == { g \in DOMAIN doc.objects : doc.objects[g].kind = "InstanceObject" }

-----------------------------------------------------------------------------
\* cmd_create_rectangle_family

\* Lines 161-174, with the three prompts answered.
CreateFamily(name, default_w, default_h) ==
    /\ Idle
    /\ LET data == load(store)
           existing == find_family_by_name(data, name)
       IN IF existing # {}
          THEN Return("exists")
          ELSE
            LET parameters == [Width |-> default_w, Height |-> default_h]
                data1 == add_family(data, uuids + 1, name, "rectangle", parameters)
            IN /\ uuids' = uuids + 1
               /\ store' = json_dumps(data1)
               /\ written' = <<store'>>
               /\ last' = "created"
               /\ UNCHANGED <<doc, failures, used>>
               /\ NoSync

\* Lines 149-159: a prompt answered with nothing.
CreateFamilyCancelled ==
    /\ Idle
    /\ Return("cancelled")

cmd_create_rectangle_family ==
    \/ CreateFamilyCancelled
    \/ \E name \in Names, default_w \in DefaultReals, default_h \in DefaultReals :
         CreateFamily(name, default_w, default_h)

-----------------------------------------------------------------------------
\* cmd_insert_instance

\* Lines 204-213, with family picked and the prompts answered; addOk is the
\* host's outcome of AddInstanceObject.
InsertInstance(name, width, height, pt, addOk) ==
    /\ Idle
    /\ LET data == load(store)
       IN /\ name \in FamilyNames(data)
          /\ LET family_id == CHOOSE fid \in find_family_by_name(data, name) : TRUE
                 family == data.families[family_id]
                 values == [Width |-> round6(width), Height |-> round6(height)]
                 e == ensure_definition(doc, family, values)
             IN /\ HostBudget(addOk)
                /\ used' = used \cup {<<family.name, values>>}
                /\ \E attr \in Attrs :
                     LET a == AddInstanceObject(e.doc, e.idx, Translation(pt), attr, addOk)
                     IN /\ doc' = a.doc
                        /\ IF a.id = GuidEmpty
                           THEN /\ failures' = failures + 1
                                /\ last' = "insert_failed"
                                /\ written' = << >>
                                /\ UNCHANGED store
                           ELSE /\ store' = json_dumps(add_instance(data, str(a.id),
                                                                    family_id, values))
                                /\ written' = <<store'>>
                                /\ last' = "inserted"
                                /\ UNCHANGED failures
    /\ UNCHANGED uuids
    /\ NoSync

\* The insert command asking for the point after ensure_definition has run:
\* a cancelled point prompt leaves the definition behind.
InsertInstanceCancelled_late ==
    /\ Idle
    /\ \E fid \in DOMAIN load(store).families, width \in WidthReals, height \in HeightReals :
         doc' = ensure_definition(doc, load(store).families[fid],
                                  [Width |-> round6(width), Height |-> round6(height)]).doc
    /\ last' = "cancelled"
    /\ written' = << >>
    /\ UNCHANGED <<store, pc, reg, updates, sync_fid, uuids, failures, session, used>>

\* Lines 178-202: no family to pick, or a prompt answered with nothing.
InsertInstanceCancelled ==
    /\ Idle
    /\ IF DOMAIN load(store).families = {}
       THEN Return("nofamilies")
       ELSE Return("cancelled")

cmd_insert_instance ==
    \/ InsertInstanceCancelled
    \/ \E name \in Names, width \in WidthReals, height \in HeightReals,
          pt \in Points, addOk \in BOOLEAN :
         InsertInstance(name, width, height, pt, addOk)

-----------------------------------------------------------------------------
\* cmd_edit_instance_parameters

\* The edit command retiring the old id before it looks at the outcome of the
\* replacement: a failed replacement leaves the registry without the entry.
EditInstance_retire_first(obj_id, width, height, delOk, addOk) ==
    /\ Idle
    /\ obj_id \in Pickable
    /\ LET data == load(store)
       IN IF \/ str(obj_id) \notin DOMAIN data.instances
             \/ data.instances[str(obj_id)].family_id \notin DOMAIN data.families
          THEN /\ delOk /\ addOk
               /\ Return("unmanaged")
          ELSE
            LET inst == data.instances[str(obj_id)]
                family == data.families[inst.family_id]
                new_values == [Width |-> round6(width), Height |-> round6(height)]
                r == replace_instance_geometry(doc, str(obj_id), family, new_values,
                                               delOk, addOk)
                data1 == remove_instance(data, str(obj_id))
                data2 == add_instance(data1, r.ret.text, inst.family_id, new_values)
            IN /\ (~delOk => addOk)
               /\ HostBudget(delOk /\ addOk)
               /\ doc' = r.doc
               /\ used' = used \cup {<<family.name, new_values>>}
               /\ last' = r.branch
               /\ IF ~r.ret.truthy
                  THEN /\ failures' = failures + 1
                       /\ store' = json_dumps(data1)
                       /\ written' = <<store'>>
                  ELSE /\ store' = json_dumps(data2)
                       /\ written' = <<json_dumps(data1), json_dumps(data2)>>
                       /\ UNCHANGED failures
               /\ UNCHANGED uuids
               /\ NoSync

\* Lines 222-248, with a live block instance picked and the prompts answered;
\* delOk and addOk are the host's outcomes of Delete and AddInstanceObject.
EditInstance(obj_id, width, height, delOk, addOk) ==
    /\ Idle
    /\ obj_id \in Pickable
    /\ \E data \in {load(store)} :
         IF \/ str(obj_id) \notin DOMAIN data.instances
            \/ data.instances[str(obj_id)].family_id \notin DOMAIN data.families
         THEN /\ delOk /\ addOk
              /\ Return("unmanaged")
         ELSE
           LET inst == data.instances[str(obj_id)]
               family == data.families[inst.family_id]
               new_values == [Width |-> round6(width), Height |-> round6(height)]
           IN /\ (~delOk => addOk)
              /\ HostBudget(delOk /\ addOk)
              /\ \E r \in {replace_instance_geometry(doc, str(obj_id), family,
                                                     new_values, delOk, addOk)} :
                   /\ doc' = r.doc
                   /\ used' = used \cup {<<family.name, new_values>>}
                   /\ last' = r.branch
                   /\ IF ~r.ret.truthy
                      THEN /\ failures' = failures + 1
                           /\ written' = << >>
                           /\ UNCHANGED store
                      ELSE \E data1 \in {remove_instance(data, str(obj_id))} :
                           \E data2 \in {add_instance(data1, r.ret.text,
                                                       inst.family_id, new_values)} :
                             /\ store' = json_dumps(data2)
                             /\ written' = <<json_dumps(data1), json_dumps(data2)>>
                             /\ UNCHANGED failures
              /\ UNCHANGED uuids
              /\ NoSync

\* Lines 218-238: nothing picked, or a prompt answered with nothing.
EditInstanceCancelled ==
    /\ Idle
    /\ Return("cancelled")

cmd_edit_instance_parameters ==
    \/ EditInstanceCancelled
    \/ \E obj_id \in Pickable, width \in WidthReals, height \in HeightReals,
          delOk \in BOOLEAN, addOk \in BOOLEAN :
         EditInstance(obj_id, width, height, delOk, addOk)

-----------------------------------------------------------------------------
\* cmd_sync_family_instances

\* The live objects among the ids a sync is about to process.
LiveIn(ids) == { oid \in ids : Guid(oid) \in DOMAIN doc.objects }

\* Lines 263-279: new defaults set in reg.data, list materialized.
SyncStart(name, default_w, default_h) ==
    /\ Idle
    /\ LET data == load(store)
       IN /\ name \in FamilyNames(data)
          /\ LET family_id == CHOOSE fid \in find_family_by_name(data, name) : TRUE
                 parameters == [Width |-> round6(default_w), Height |-> round6(default_h)]
                 data1 == [data EXCEPT !.families[family_id].parameters = parameters]
                 ids == iter_instances_for_family(data1, family_id)
             IN /\ Cardinality(LiveIn(ids))
                     <= (MaxGuids + 1 - doc.next) + (MaxFailures - failures)
                /\ \E order \in Orderings(ids) :
                     updates' = [i \in DOMAIN order |->
                                   [obj_id |-> order[i], info |-> data1.instances[order[i]]]]
                /\ reg' = data1
                /\ sync_fid' = family_id
                /\ pc' = "sync"
                /\ last' = "sync_started"
    /\ written' = << >>
    /\ UNCHANGED <<doc, store, uuids, failures, session, used>>

\* Lines 252-272: no family to pick, or a prompt answered with nothing.
SyncCancelled ==
    /\ Idle
    /\ IF DOMAIN load(store).families = {}
       THEN Return("nofamilies")
       ELSE Return("cancelled")

\* The loop iteration without the existence test of line 283: a missing
\* object goes to replace_instance_geometry and its entry is kept.
SyncStep_noprune(delOk, addOk) ==
    /\ pc = "sync"
    /\ updates # << >>
    /\ LET obj_id == Head(updates).obj_id
           info == Head(updates).info
           family == reg.families[sync_fid]
           live == Guid(obj_id) \in DOMAIN doc.objects
           r == replace_instance_geometry(doc, obj_id, family, info.values, delOk, addOk)
           reg1 == remove_instance(reg, obj_id)
           reg2 == add_instance(reg1, r.ret.text, sync_fid, info.values)
       IN /\ (~delOk => addOk)
          /\ IF live THEN HostBudget(delOk /\ addOk) ELSE delOk /\ addOk
          /\ doc' = r.doc
          /\ used' = used \cup {<<family.name, info.values>>}
          /\ last' = r.branch
          /\ failures' = IF r.ret.truthy \/ ~live THEN failures ELSE failures + 1
          /\ IF r.ret.truthy /\ r.ret.text # obj_id
             THEN /\ reg' = reg2
                  /\ store' = json_dumps(reg2)
                  /\ written' = <<json_dumps(reg1), json_dumps(reg2)>>
             ELSE /\ written' = << >>
                  /\ UNCHANGED <<reg, store>>
    /\ updates' = Tail(updates)
    /\ UNCHANGED <<pc, sync_fid, uuids, session>>

\* The loop iteration with a failed replacement ending the command (as an
\* exception would): the rest of the list and the final save are skipped.
SyncStep_abort(delOk, addOk) ==
    /\ pc = "sync"
    /\ updates # << >>
    /\ LET obj_id == Head(updates).obj_id
           info == Head(updates).info
           family == reg.families[sync_fid]
       IN IF Guid(obj_id) \notin DOMAIN doc.objects
          THEN /\ delOk /\ addOk
               /\ reg' = remove_instance(reg, obj_id)
               /\ store' = json_dumps(reg')
               /\ written' = <<store'>>
               /\ last' = "Pruned"
               /\ updates' = Tail(updates)
               /\ UNCHANGED <<doc, failures, used, pc, sync_fid>>
          ELSE
            LET r == replace_instance_geometry(doc, obj_id, family, info.values,
                                               delOk, addOk)
                reg1 == remove_instance(reg, obj_id)
                reg2 == add_instance(reg1, r.ret.text, sync_fid, info.values)
            IN /\ (~delOk => addOk)
               /\ HostBudget(delOk /\ addOk)
               /\ doc' = r.doc
               /\ used' = used \cup {<<family.name, info.values>>}
               /\ last' = r.branch
               /\ failures' = IF r.ret.truthy THEN failures ELSE failures + 1
               /\ IF r.ret.truthy
                  THEN /\ reg' = reg2
                       /\ store' = json_dumps(reg2)
                       /\ written' = <<json_dumps(reg1), json_dumps(reg2)>>
                       /\ updates' = Tail(updates)
                       /\ UNCHANGED <<pc, sync_fid>>
                  ELSE /\ written' = << >>
                       /\ reg' = EmptyData
                       /\ updates' = << >>
                       /\ pc' = "idle"
                       /\ sync_fid' = 0
                       /\ UNCHANGED store
    /\ UNCHANGED <<uuids, session>>

\* The loop iteration re-registering a replaced instance with the family's
\* new defaults instead of the instance's own values.
SyncStep_defaults(delOk, addOk) ==
    /\ pc = "sync"
    /\ updates # << >>
    /\ LET obj_id == Head(updates).obj_id
           info == Head(updates).info
           family == reg.families[sync_fid]
       IN IF Guid(obj_id) \notin DOMAIN doc.objects
          THEN /\ delOk /\ addOk
               /\ reg' = remove_instance(reg, obj_id)
               /\ store' = json_dumps(reg')
               /\ written' = <<store'>>
               /\ last' = "Pruned"
               /\ UNCHANGED <<doc, failures, used>>
          ELSE
            LET r == replace_instance_geometry(doc, obj_id, family, info.values,
                                               delOk, addOk)
                reg1 == remove_instance(reg, obj_id)
                reg2 == add_instance(reg1, r.ret.text, sync_fid, family.parameters)
            IN /\ (~delOk => addOk)
               /\ HostBudget(delOk /\ addOk)
               /\ doc' = r.doc
               /\ used' = used \cup {<<family.name, info.values>>}
               /\ last' = r.branch
               /\ failures' = IF r.ret.truthy THEN failures ELSE failures + 1
               /\ IF r.ret.truthy /\ r.ret.text # obj_id
                  THEN /\ reg' = reg2
                       /\ store' = json_dumps(reg2)
                       /\ written' = <<json_dumps(reg1), json_dumps(reg2)>>
                  ELSE /\ written' = << >>
                       /\ UNCHANGED <<reg, store>>
    /\ updates' = Tail(updates)
    /\ UNCHANGED <<pc, sync_fid, uuids, session>>

\* Lines 281-290: one iteration of the loop over updates; delOk and addOk are
\* the host's outcomes for this instance.
SyncStep(delOk, addOk) ==
    /\ pc = "sync"
    /\ updates # << >>
    /\ LET obj_id == Head(updates).obj_id
           info == Head(updates).info
           family == reg.families[sync_fid]
       IN IF Guid(obj_id) \notin DOMAIN doc.objects
          THEN /\ delOk /\ addOk
               /\ reg' = remove_instance(reg, obj_id)
               /\ store' = json_dumps(reg')
               /\ written' = <<store'>>
               /\ last' = "Pruned"
               /\ UNCHANGED <<doc, failures, used>>
          ELSE
            /\ (~delOk => addOk)
            /\ HostBudget(delOk /\ addOk)
            /\ \E r \in {replace_instance_geometry(doc, obj_id, family, info.values,
                                                   delOk, addOk)} :
                 /\ doc' = r.doc
                 /\ used' = used \cup {<<family.name, info.values>>}
                 /\ last' = r.branch
                 /\ failures' = IF r.ret.truthy THEN failures ELSE failures + 1
                 /\ IF r.ret.truthy /\ r.ret.text # obj_id
                    THEN \E reg1 \in {remove_instance(reg, obj_id)} :
                         \E reg2 \in {add_instance(reg1, r.ret.text, sync_fid,
                                                   info.values)} :
                           /\ reg' = reg2
                           /\ store' = json_dumps(reg2)
                           /\ written' = <<json_dumps(reg1), json_dumps(reg2)>>
                    ELSE /\ written' = << >>
                         /\ UNCHANGED <<reg, store>>
    /\ updates' = Tail(updates)
    /\ UNCHANGED <<pc, sync_fid, uuids, session>>

\* The end of the command without the save of line 292.
SyncFinish_nosave ==
    /\ pc = "sync"
    /\ updates = << >>
    /\ last' = "synchronized"
    /\ written' = << >>
    /\ pc' = "idle"
    /\ reg' = EmptyData
    /\ sync_fid' = 0
    /\ UNCHANGED <<doc, store, updates, uuids, failures, session, used>>

\* Lines 292-294: the save after the loop.
SyncFinish ==
    /\ pc = "sync"
    /\ updates = << >>
    /\ store' = json_dumps(reg)
    /\ written' = <<store'>>
    /\ last' = "synchronized"
    /\ pc' = "idle"
    /\ reg' = EmptyData
    /\ sync_fid' = 0
    /\ UNCHANGED <<doc, updates, uuids, failures, session, used>>

SyncLoop == \E delOk \in BOOLEAN, addOk \in BOOLEAN : SyncStep(delOk, addOk)

cmd_sync_family_instances ==
    \/ SyncCancelled
    \/ \E name \in Names, default_w \in DefaultReals, default_h \in DefaultReals :
         SyncStart(name, default_w, default_h)
    \/ SyncLoop
    \/ SyncFinish

-----------------------------------------------------------------------------
\* The user deletes a placed object from the document between two commands.

ExternalDelete ==
    /\ Idle
    /\ \E g \in DOMAIN doc.objects :
         doc' = [doc EXCEPT !.objects = Without(@, g)]
    /\ last' = "deleted_by_user"
    /\ written' = << >>
    /\ UNCHANGED <<store, uuids, failures, used>>
    /\ NoSync

-----------------------------------------------------------------------------

Next ==
    \/ cmd_create_rectangle_family
    \/ cmd_insert_instance
    \/ cmd_edit_instance_parameters
    \/ cmd_sync_family_instances
    \/ ExternalDelete

Spec == Init /\ [][Next]_vars

\* The sync loop and its final save run to completion once started: the
\* command is one synchronous call.  Liveness is checked over one session of
\* one family.
FairSessions ==
    { [ names |-> { <<"P", "a">> }, widths |-> {14, 20}, points |-> {0},
        attrs |-> {DefaultAttr}, slot |-> NoValue ] }

FairSpec ==
    InitIn(FairSessions) /\ [][Next]_vars /\ WF_vars(SyncLoop) /\ WF_vars(SyncFinish)

-----------------------------------------------------------------------------
\* Properties.

\* The registry as the next command will load it from the slot.
Persisted == load(store)

\* The values a command builds from the answers width and height.
ValuesOf(width, height) == [Width |-> round6(width), Height |-> round6(height)]

\* obj_id is a live placed object with an entry in the persisted registry.
Managed(obj_id) ==
    /\ obj_id \in DOMAIN doc.objects
    /\ str(obj_id) \in DOMAIN Persisted.instances

\* C1. Replacement identity handoff: when the edit command runs on a live
\* registered instance `old` of family F with new values V2 and the host's
\* delete and create both succeed, then afterwards the registry holds a new id
\* different from `old`, `old` is gone from it, and the new id maps to
\* {family_id: F, values: V2}; also when V2 equals the old values.
C1_ReplacementIdentityHandoff ==
    [][\A obj_id \in DOMAIN doc.objects, width \in WidthReals, height \in HeightReals :
         (Managed(obj_id) /\ EditInstance(obj_id, width, height, TRUE, TRUE))
         => LET old == str(obj_id)
                F == Persisted.instances[old].family_id
                after == load(store').instances
            IN /\ old \notin DOMAIN after
               /\ \E new \in DOMAIN after :
                    /\ new # old
                    /\ new \notin DOMAIN Persisted.instances
                    /\ after[new] = [family_id |-> F, values |-> ValuesOf(width, height)]
      ]_vars

\* An edit has just replaced an instance.
C1_Witness == pc = "idle" /\ last = "Replaced"

\* C2. replace_instance_geometry reports "old object deleted, new object not
\* created" with a return value that differs from the one it gives when the
\* delete failed and the old object still exists.
C2_ReplacementLostDistinct ==
    \A oid \in DOMAIN Persisted.instances :
      Guid(oid) \in DOMAIN doc.objects =>
        LET inst == Persisted.instances[oid]
            family == Persisted.families[inst.family_id]
            lost == replace_instance_geometry(doc, oid, family, inst.values, TRUE, FALSE)
            kept == replace_instance_geometry(doc, oid, family, inst.values, FALSE, TRUE)
        IN (lost.branch = "ReplacementLost" /\ kept.branch = "DeleteFailed")
           => lost.ret # kept.ret

\* No one family of data have the same name up to case.
NameUnique(data) ==
    \A f1, f2 \in DOMAIN data.families :
      f1 # f2 => lower(data.families[f1].name) # lower(data.families[f2].name)

\* C3. Name uniqueness: no step leads to a persisted registry with two
\* families whose names are equal up to case, and a create-family command
\* whose name equals an existing family's name up to case adds no family and
\* leaves the slot unchanged.
C3_NameUniqueness ==
    [][/\ NameUnique(load(store'))
       /\ \A name \in Names, default_w \in DefaultReals, default_h \in DefaultReals :
            (/\ CreateFamily(name, default_w, default_h)
             /\ \E fid \in DOMAIN Persisted.families :
                  lower(Persisted.families[fid].name) = lower(name))
            => /\ store' = store
               /\ DOMAIN load(store').families = DOMAIN Persisted.families
      ]_vars

\* A create-family command has just been rejected for its name.
C3_Witness == last = "exists" /\ DOMAIN Persisted.families # {}

\* C4. Sync lazy pruning: an iteration of the sync loop whose object no longer
\* exists removes the entry from the registry (in memory and in the slot),
\* performs no host action and lets the loop go on; an iteration whose object
\* is live keeps the entry under its old id or under a new one; no other
\* entry is dropped, only a fresh Guid is ever added, and the final save
\* writes the registry so obtained.
C4_SyncLazyPruning ==
    [][/\ (pc = "sync" /\ updates # << >>) =>
            LET oid == Head(updates).obj_id
            IN /\ IF Guid(oid) \notin DOMAIN doc.objects
                  THEN /\ oid \notin DOMAIN reg'.instances
                       /\ oid \notin DOMAIN load(store').instances
                       /\ doc' = doc
                       /\ pc' = "sync"
                  ELSE \/ oid \in DOMAIN reg'.instances
                       \/ \E new \in DOMAIN reg'.instances \ DOMAIN reg.instances :
                            reg'.instances[new] = reg.instances[oid]
               /\ \A x \in DOMAIN reg.instances \ {oid} : x \in DOMAIN reg'.instances
               /\ \A x \in DOMAIN reg'.instances \ DOMAIN reg.instances : x = str(doc.next)
       /\ (pc = "sync" /\ updates = << >>) => load(store').instances = reg.instances
      ]_vars

\* The sync loop has just pruned an entry while another instance of the
\* family is registered with a live object.
C4_Witness ==
    /\ pc = "sync"
    /\ last = "Pruned"
    /\ \E oid \in DOMAIN reg.instances :
         reg.instances[oid].family_id = sync_fid /\ Guid(oid) \in DOMAIN doc.objects

\* C5. Best-effort sync: every iteration of the sync loop, whatever its
\* outcome, takes exactly the head off the list and stays in the loop, and a
\* sync in which a replacement has failed still reaches its final save.
C5_BestEffortSync ==
    /\ [][(pc = "sync" /\ updates # << >>) => (pc' = "sync" /\ updates' = Tail(updates))]_vars
    /\ (pc = "sync" /\ last \in {"InstanceNotFound", "NotAnInstance",
                                  "DeleteFailed", "ReplacementLost"})
         ~> (pc = "idle" /\ last = "synchronized")

\* A replacement has just failed in the sync loop and instances are left to process.
C5_Witness ==
    /\ pc = "sync"
    /\ last \in {"DeleteFailed", "ReplacementLost"}
    /\ updates # << >>

\* C6. Sync preserves per-instance values: the sync sets the family's defaults
\* to the (rounded) answers and leaves the other families and all instance
\* entries as loaded; an iteration leaves the families and every other entry
\* alone, and when it creates a placed object it registers the new id with the
\* family and the values the old id had; the final save writes that registry.
C6_SyncPreservesValues ==
    [][/\ \A name \in Names, default_w \in DefaultReals, default_h \in DefaultReals :
            SyncStart(name, default_w, default_h) =>
              /\ sync_fid' \in DOMAIN reg'.families
              /\ reg'.families[sync_fid'].parameters = ValuesOf(default_w, default_h)
              /\ reg'.families[sync_fid'].name = name
              /\ DOMAIN reg'.families = DOMAIN Persisted.families
              /\ \A fid \in DOMAIN Persisted.families \ {sync_fid'} :
                   reg'.families[fid] = Persisted.families[fid]
              /\ reg'.instances = Persisted.instances
       /\ (pc = "sync" /\ updates # << >>) =>
            LET oid == Head(updates).obj_id
            IN /\ reg'.families = reg.families
               /\ \A x \in DOMAIN reg.instances \ {oid} :
                    x \in DOMAIN reg'.instances /\ reg'.instances[x] = reg.instances[x]
               /\ oid \in DOMAIN reg'.instances => reg'.instances[oid] = reg.instances[oid]
               /\ doc'.next # doc.next =>
                    /\ oid \notin DOMAIN reg'.instances
                    /\ str(doc.next) # oid
                    /\ str(doc.next) \in DOMAIN reg'.instances
                    /\ reg'.instances[str(doc.next)] = reg.instances[oid]
               /\ DOMAIN reg'.instances \subseteq DOMAIN reg.instances \cup {str(doc.next)}
       /\ (pc = "sync" /\ updates = << >>) => load(store') = reg
      ]_vars

\* The sync loop has just replaced an instance whose values differ from the
\* family's new defaults.
C6_Witness ==
    /\ pc = "sync"
    /\ last = "Replaced"
    /\ \E oid \in DOMAIN reg.instances :
         /\ Guid(oid) = doc.next - 1
         /\ reg.instances[oid].family_id = sync_fid
         /\ reg.instances[oid].values # reg.families[sync_fid].parameters

\* C7 as stated: while the sync loop is running nothing is written to the slot.
C7_PersistOnce ==
    [][(pc = "sync" /\ updates # << >>) => store' = store]_vars

\* C7, amended. The slot is written through during the sync loop: an iteration
\* that changes the registry leaves it in the slot, one that does not leaves
\* the slot alone; and after the last iteration the registry is saved once more.
C7_WriteThroughThenFinalSave ==
    [][/\ (pc = "sync" /\ updates # << >>) =>
            IF reg' # reg THEN store' = json_dumps(reg') ELSE store' = store
       /\ (pc = "sync" /\ updates = << >>) =>
            (store' = json_dumps(reg) /\ pc' = "idle")
      ]_vars

\* A sync has ended after its loop wrote the slot.
C7_Witness ==
    /\ pc = "idle"
    /\ last = "synchronized"
    /\ \E oid \in DOMAIN Persisted.instances : Guid(oid) = doc.next - 1

\* C8. Cache idempotence: in every reachable document no two definitions have
\* the same name, and for every family and value mapping a second
\* ensure_definition returns the index of the first and adds nothing, so that
\* both together add at most one definition.
C8_CacheIdempotence ==
    /\ \A i, j \in DOMAIN doc.defs :
         i # j => doc.defs[i].name # doc.defs[j].name
    /\ \A fid \in DOMAIN Persisted.families, width \in WidthReals, height \in HeightReals :
         LET family == Persisted.families[fid]
             first == ensure_definition(doc, family, ValuesOf(width, height))
             second == ensure_definition(first.doc, family, ValuesOf(width, height))
         IN /\ second.idx = first.idx
            /\ second.doc = first.doc
            /\ Len(second.doc.defs) <= Len(doc.defs) + 1

\* Two live placed objects share one definition.
C8_Witness ==
    \E g1, g2 \in DOMAIN doc.objects :
      g1 # g2 /\ doc.objects[g1].idef = doc.objects[g2].idef

\* C9. As long as no host operation has failed, the document holds as many
\* definitions as there are distinct (family name, values) pairs used by
\* insert, edit and sync; and a successful edit leaves the number of registry
\* instances unchanged.
C9_DefinitionsPerValueSet ==
    [][/\ failures' = 0 => Len(doc'.defs) = Cardinality(used')
       /\ \A obj_id \in DOMAIN doc.objects, width \in WidthReals, height \in HeightReals :
            (Managed(obj_id) /\ EditInstance(obj_id, width, height, TRUE, TRUE))
            => Cardinality(DOMAIN load(store').instances)
                 = Cardinality(DOMAIN Persisted.instances)
      ]_vars

\* One family, one instance, edited to another width: two definitions.
C9_Witness ==
    /\ pc = "idle"
    /\ last = "Replaced"
    /\ failures = 0
    /\ Cardinality(DOMAIN Persisted.families) = 1
    /\ Cardinality(DOMAIN Persisted.instances) = 1
    /\ Len(doc.defs) = 2

\* C10. DeleteFailed aborts cleanly: when the host's delete of the old object
\* fails, in an edit or in a sync iteration, the document is left as it was
\* (no definition added, no object created, the old object still there under
\* its id) and the registry is not touched.
C10_DeleteFailedAborts ==
    [][/\ \A obj_id \in DOMAIN doc.objects, width \in WidthReals, height \in HeightReals :
            (Managed(obj_id) /\ EditInstance(obj_id, width, height, FALSE, TRUE))
            => /\ doc' = doc
               /\ store' = store
               /\ last' = "DeleteFailed"
       /\ (/\ SyncStep(FALSE, TRUE)
           /\ Guid(Head(updates).obj_id) \in DOMAIN doc.objects)
            => /\ doc' = doc
               /\ reg' = reg
               /\ store' = store
               /\ last' = "DeleteFailed"
      ]_vars

\* A delete has just failed.
C10_Witness == last = "DeleteFailed"

\* C11. Placement preservation: when a replacement succeeds, in an edit or in
\* a sync iteration, the old object is gone and the new placed object has the
\* transform and the attributes the old object had before the step deleted
\* it; and no step changes the transform or the attributes of an object it
\* leaves in the document, so a transform stays the one given at insertion.
C11_PlacementPreservation ==
    [][/\ \A obj_id \in DOMAIN doc.objects, width \in WidthReals, height \in HeightReals :
            (Managed(obj_id) /\ EditInstance(obj_id, width, height, TRUE, TRUE))
            => /\ obj_id \notin DOMAIN doc'.objects
               /\ doc.next \in DOMAIN doc'.objects
               /\ doc'.objects[doc.next].xform = doc.objects[obj_id].xform
               /\ doc'.objects[doc.next].attr = doc.objects[obj_id].attr
       /\ (/\ SyncStep(TRUE, TRUE)
           /\ Guid(Head(updates).obj_id) \in DOMAIN doc.objects)
            => LET g == Guid(Head(updates).obj_id)
               IN /\ g \notin DOMAIN doc'.objects
                  /\ doc.next \in DOMAIN doc'.objects
                  /\ doc'.objects[doc.next].xform = doc.objects[g].xform
                  /\ doc'.objects[doc.next].attr = doc.objects[g].attr
       /\ \A g \in DOMAIN doc.objects \cap DOMAIN doc'.objects :
            /\ doc'.objects[g].xform = doc.objects[g].xform
            /\ doc'.objects[g].attr = doc.objects[g].attr
      ]_vars

\* A replacement has just created an object that is not at the origin or
\* does not have the default attributes.
C11_Witness ==
    /\ last = "Replaced"
    /\ doc.next - 1 \in DOMAIN doc.objects
    /\ \/ doc.objects[doc.next - 1].xform # Translation(0)
       \/ doc.objects[doc.next - 1].attr # DefaultAttr

\* Every instance id of data is the text of a Guid the host has issued.
Issued(data, d) ==
    \A oid \in DOMAIN data.instances : Guid(oid) \in 1..(d.next - 1)

\* C12. No phantom id: after every step each instance id in the persisted
\* registry, and in the registry of a running sync, is the text of a Guid the
\* host issued for a placed object; and a replacement in which the delete
\* succeeded and the create failed adds no instance entry.
C12_NoPhantomId ==
    [][/\ Issued(load(store'), doc')
       /\ Issued(reg', doc')
       /\ last' = "ReplacementLost" =>
            /\ DOMAIN load(store').instances \subseteq DOMAIN Persisted.instances
            /\ DOMAIN reg'.instances \subseteq DOMAIN reg.instances
      ]_vars

\* A replacement has just lost an object while the registry holds entries.
C12_Witness ==
    /\ last = "ReplacementLost"
    /\ DOMAIN Persisted.instances # {}

\* The slot holds nothing, or text that _load cannot read as a JSON object.
Unreadable(raw) == raw.kind \in {"none", "empty", "text", "array"}

C15_CancellationSideEffectFree ==
    [][(\/ CreateFamilyCancelled
        \/ InsertInstanceCancelled
        \/ EditInstanceCancelled
        \/ SyncCancelled
        \/ last' = "cancelled")
       => /\ doc' = doc
          /\ store' = store
          /\ load(store') = Persisted
          /\ written' = << >>
          /\ pc' = "idle"
      ]_vars

\* A command has been cancelled in a document with families, instances,
\* definitions and placed objects.
C15_Witness ==
    /\ last = "cancelled"
    /\ DOMAIN Persisted.instances # {}
    /\ DOMAIN doc.objects # {}
    /\ doc.defs # << >>

\* The values the commands of this session can bind to a parameter.
ParameterValues == { round6(x) : x \in WidthReals \cup HeightReals \cup DefaultReals }

\* C16. Canonical-name determinism: for every family name of the session and
\* every mapping over a non-empty subset of the parameter names, the name is
\* the same whatever order the keys are iterated in, and it lists the keys in
\* lexicographic order; and the definition a registered live instance uses
\* carries the name of its family and values, whatever the iteration order.
\* The first part does not depend on the state and is evaluated where the
\* session's inputs are drawn.
C16_CanonicalNameDeterminism ==
    /\ last = "init" =>
         \A name \in Names, K \in (SUBSET {"Depth", "Height", "Width"}) \ {{}} :
           \A values \in [K -> ParameterValues], o1 \in Orderings(K) :
             /\ definition_name_iter(name, values, o1) = definition_name(name, values)
             /\ \A i, j \in DOMAIN o1 : i <= j => KeyLeq(sorted(o1)[i], sorted(o1)[j])
             /\ { sorted(o1)[i] : i \in DOMAIN o1 } = K
    /\ \A oid \in DOMAIN Persisted.instances :
         (/\ Guid(oid) \in DOMAIN doc.objects
          /\ Persisted.instances[oid].family_id \in DOMAIN Persisted.families)
         => LET inst == Persisted.instances[oid]
                family == Persisted.families[inst.family_id]
            IN \A order \in Orderings(DOMAIN inst.values) :
                 doc.defs[doc.objects[Guid(oid)].idef].name
                   = definition_name_iter(family.name, inst.values, order)

\* Two live registered instances with different values.
C16_Witness ==
    \E o1, o2 \in DOMAIN Persisted.instances :
      /\ Guid(o1) \in DOMAIN doc.objects
      /\ Guid(o2) \in DOMAIN doc.objects
      /\ Persisted.instances[o1].values # Persisted.instances[o2].values

\* C17. Atomic identity handoff: whenever a replacement has succeeded, every
\* value the step writes to the slot registers the instance under its old id
\* or under its new id.
C17_AtomicHandoff ==
    [][last' = "Replaced" =>
         \A g \in DOMAIN doc.objects \ DOMAIN doc'.objects :
           str(g) \in DOMAIN Persisted.instances =>
             \A i \in DOMAIN written' :
               \/ str(g) \in DOMAIN load(written'[i]).instances
               \/ str(doc.next) \in DOMAIN load(written'[i]).instances
      ]_vars

\* Every instance of data is bound to a family of data and has values for
\* exactly the parameters of that family.
Referential(data) ==
    \A oid \in DOMAIN data.instances :
      /\ data.instances[oid].family_id \in DOMAIN data.families
      /\ DOMAIN data.instances[oid].values
           = DOMAIN data.families[data.instances[oid].family_id].parameters

\* C18. Referential integrity: in the persisted registry, in the registry of
\* a running sync and in every value a step has written to the slot, each
\* instance's family_id is a key of families and the instance's values have
\* the same keys as the family's parameters.
C18_ReferentialIntegrity ==
    /\ Referential(Persisted)
    /\ pc = "sync" => Referential(reg)
    /\ \A i \in DOMAIN written : Referential(load(written[i]))

\* An instance is registered whose values differ from its family's defaults.
C18_Witness ==
    \E oid \in DOMAIN Persisted.instances :
      /\ Persisted.instances[oid].family_id \in DOMAIN Persisted.families
      /\ Persisted.instances[oid].values
           # Persisted.families[Persisted.instances[oid].family_id].parameters

\* The instance ids of data are exactly the texts of the Guids of the live
\* block instances of d.
Agree(data, d) ==
    DOMAIN data.instances
      = { str(g) : g \in { x \in DOMAIN d.objects : d.objects[x].kind = "InstanceObject" } }

\* C19. Registry/host agreement: the registry and the document agree when
\* the document is opened, and a step that is not a deletion by the user and
\* in which no host operation fails takes a state in which the persisted
\* instance ids are exactly the ids of the live placed objects to a state in
\* which they are again; a mapping holds each id once.
C19_RegistryHostAgreement ==
    [][/\ last = "init" => Agree(Persisted, doc)
       /\ (/\ Agree(Persisted, doc)
           /\ last' # "deleted_by_user"
           /\ failures' = failures)
          => /\ Agree(load(store'), doc')
             /\ Cardinality(DOMAIN load(store').instances) = Cardinality(Pickable')
      ]_vars

\* Two instances inserted and one of them replaced, without a failure, and
\* registry and document agree.
C19_Witness ==
    /\ pc = "idle"
    /\ last = "Replaced"
    /\ failures = 0
    /\ Cardinality(Pickable) >= 1
    /\ Agree(Persisted, doc)

\* The ids the running sync has still to process.
Scheduled == { updates[i].obj_id : i \in DOMAIN updates }

\* C20. A failed edit leaves the slot as it was; when the delete succeeded
\* and the create failed, the registry still holds the old id although the
\* object is gone; a sync of a family schedules every entry of that family,
\* and an entry scheduled in a running sync whose object is gone is no longer
\* in the persisted registry when that sync has finished.
C20_FailedEditThenPruned ==
    /\ [][/\ (pc = "idle" /\ last' \in {"InstanceNotFound", "NotAnInstance",
                                          "DeleteFailed", "ReplacementLost"})
                => /\ store' = store
                   /\ load(store') = Persisted
                   /\ last' = "ReplacementLost" =>
                        \E g \in DOMAIN doc.objects \ DOMAIN doc'.objects :
                          str(g) \in DOMAIN load(store').instances
          /\ (pc = "idle" /\ pc' = "sync")
                => \A oid \in DOMAIN Persisted.instances :
                     Persisted.instances[oid].family_id = sync_fid' => oid \in Scheduled'
          ]_vars
    /\ \A g \in 1..MaxGuids :
         (pc = "sync" /\ str(g) \in Scheduled /\ g \notin DOMAIN doc.objects)
           ~> (/\ pc = "idle"
               /\ last = "synchronized"
               /\ str(g) \notin DOMAIN Persisted.instances)

\* A sync has just pruned an entry after a host operation had failed.
C20_Witness ==
    /\ pc = "sync"
    /\ last = "Pruned"
    /\ failures > 0

====
